---- MODULE Spec2Model ----
(***************************************************************************)
(* Timewise-Calendar: the infinite-scroll timeline of CalendarView.tsx     *)
(* (InfiniteTimelineView, the anchor-based variant that App.tsx renders)   *)
(* together with the part of App.tsx that owns the displayed date.         *)
(*                                                                         *)
(* A Date is modelled by its local calendar day, counted in days from      *)
(* 1 January EpochYear; getFullYear/getMonth/getDate and setDate are the   *)
(* ECMAScript day arithmetic (YearFromTime, MonthFromTime, DateFromTime,   *)
(* MakeDay).  The time of day of a Date is not modelled.                    *)
(*                                                                         *)
(* Time passes in steps: a tick of TickMs, or a stall of the main thread    *)
(* long enough to pass every threshold.  A setTimeout callback runs once   *)
(* its deadline has passed and before more time passes, so it is late by   *)
(* whatever the step overshot; callbacks that are due run in the order of  *)
(* their deadlines.  A requestAnimationFrame callback runs before time     *)
(* passes again.  Scroll events and clicks may be handled before a         *)
(* callback that is due.  A handler, the render it causes and the layout   *)
(* effect of that render are one step.                                     *)
(***************************************************************************)
EXTENDS Integers, Sequences, FiniteSets, TLC

VARIABLES
  mounted,            \* the mount effect of InfiniteTimelineView has run
  timelineDays,       \* useState<Date[]>: the Day Window
  isPrepending,       \* isPrependingRef.current
  anchorElement,      \* anchorElementRef.current: <<>> (null) or <<day>>
  anchorOffset,       \* anchorOffsetRef.current
  lastScrollAge,      \* Date.now() - lastScrollTimeRef.current, saturated at AgeCap
  lastScrollTop,      \* lastScrollTopRef.current
  isRapidScrolling,   \* isRapidScrollingRef.current
  scrollTop,          \* containerRef.current.scrollTop
  prependTimers,      \* pending setTimeout(.., 100) of handleScroll, oldest first:
                      \*   [rem, tag], tag = the anchor its scroll event captured, <<>> if none
  prependRafs,        \* pending requestAnimationFrame callbacks that prepend: their tags
  visibleTimers,      \* pending setTimeout(.., 200) of handleScroll: [rem, cd, latest],
                      \*   cd the currentDate of the closure, latest: scrollTimeoutRef holds it
  visibleRafs,        \* pending requestAnimationFrame callbacks of the visible-day check: cd each
  initScrollTimer,    \* the mount effect's setTimeout(.., 50): <<>> or <<[rem, date]>>
  jumpScrollTimers,   \* jumpToToday's setTimeout(.., 100): [rem, date] each
  currentDate,        \* App: useState(new Date()), the displayed date
  now,                \* App: the clock value handed down as a prop
  ev,                 \* what the last step did (observation only): [op, calls]
  fnIn,               \* input of the pure function under check (the pure-function specifications)
  fnOut,              \* its result
  running,            \* App is mounted (the page is open)
  settings,           \* App: useState<UserSettings>; once the page is closed, what it last was
  savedSettings,      \* localStorage["regalPlanSettings"]: [present, text]
  events,             \* App: useState<CalendarEvent[]>, the Event Store
  isApiReady,         \* App: the Google API script has loaded
  importing,          \* the auto-sync effect has run and its import is still pending
  isSyncing,          \* App: a sync is under way; the Google Sync button is disabled
  authPending,        \* calls of handleAuthClick that have not settled
  fetching,           \* calls of listUpcomingEvents that have not settled, by caller
  gapiInited,         \* googleCalendarService: let gapiInited
  gisInited,          \* googleCalendarService: let gisInited
  currentAccessToken, \* googleCalendarService: let currentAccessToken, 0 for null
  authStorage,        \* localStorage, the two keys of the sign-in: <<>> or <<[token, expiry]>>
  clock,              \* Date.now(), in ms
  authLog,            \* history: when each token was granted, which tokens a sign-out removed
  loader              \* one call of initializeGoogleApi: scripts, timers, callback invocations

vars == << mounted, timelineDays, isPrepending, anchorElement, anchorOffset,
           lastScrollAge, lastScrollTop, isRapidScrolling, scrollTop,
           prependTimers, prependRafs, visibleTimers, visibleRafs,
           initScrollTimer, jumpScrollTimers, currentDate, now, ev, fnIn, fnOut,
           running, settings, savedSettings, events, isApiReady, importing,
           isSyncing, authPending, fetching, gapiInited, gisInited,
           currentAccessToken, authStorage, clock, authLog, loader >>

(***************************************************************************)
(* Bounds of the model.                                                    *)
(***************************************************************************)
EpochYear == 2023
MaxExtensions == 2
MaxPendingPrepends == 2
MaxPendingJumps == 1
MaxNowAdvance == 1
MaxFetches == 1
MaxStore == 3
TickMs == 100
ClientHeight == 600

(***************************************************************************)
(* Calendar arithmetic of the JavaScript Date (local time, day precision). *)
(***************************************************************************)
IsLeapYear(y) == (y % 4 = 0 /\ y % 100 # 0) \/ y % 400 = 0

DaysInYear(y) == IF IsLeapYear(y) THEN 366 ELSE 365

DaysInMonth(y, m) ==
  IF m = 1 THEN (IF IsLeapYear(y) THEN 29 ELSE 28)
  ELSE IF m \in {3, 5, 8, 10} THEN 30 ELSE 31

RECURSIVE DayFromYear(_)
DayFromYear(y) == IF y <= EpochYear THEN 0 ELSE DayFromYear(y - 1) + DaysInYear(y - 1)

RECURSIVE DaysBeforeMonth(_, _)
DaysBeforeMonth(y, m) == IF m = 0 THEN 0 ELSE DaysBeforeMonth(y, m - 1) + DaysInMonth(y, m - 1)

RECURSIVE YearFromDay(_, _)
YearFromDay(t, y) == IF t < DayFromYear(y + 1) THEN y ELSE YearFromDay(t, y + 1)

\* the month holding the day that lies rest days after the first of month m of year y
RECURSIVE MonthFromDay(_, _, _)
MonthFromDay(rest, y, m) ==
  IF rest < DaysInMonth(y, m) THEN m ELSE MonthFromDay(rest - DaysInMonth(y, m), y, m + 1)

\* the days and years the model's calendar covers
CalendarYears == EpochYear..(EpochYear + 2)
CalendarDays == 0..(DayFromYear(EpochYear + 3) - 1)

\* the local date fields of every day of the calendar, computed once
DateFields ==
  [t \in CalendarDays |->
     LET y == YearFromDay(t, EpochYear)
         m == MonthFromDay(t - DayFromYear(y), y, 0)
     IN [year |-> y, month |-> m, date |-> t - DayFromYear(y) - DaysBeforeMonth(y, m) + 1]]

\* the day number of the first of every month of the calendar, computed once
MonthStart ==
  [y \in CalendarYears |-> [m \in 0..11 |-> DayFromYear(y) + DaysBeforeMonth(y, m)]]

\* Date.prototype.getFullYear
YearFromTime(t) == DateFields[t].year

\* Date.prototype.getMonth (0 = January)
MonthFromTime(t) == DateFields[t].month

\* Date.prototype.getDate
DateFromTime(t) == DateFields[t].date

\* MakeDay(year, month, date): month in 0..11, date may lie outside the month
MakeDay(y, m, dt) == MonthStart[y][m] + dt - 1

\* const d = new Date(date); d.setDate(d.getDate() + i)
AddDays(date, i) == MakeDay(YearFromTime(date), MonthFromTime(date), DateFromTime(date) + i)

\* the loop with its upper end left out: for (let i = lo; i < hi; i++)
DaysAroundExclusive(center, lo, hi) == [k \in 1..(hi - lo) |-> AddDays(center, lo + k - 1)]

\* for (let i = lo; i <= hi; i++) { d = new Date(center); d.setDate(d.getDate() + i); push(d) }
DaysAround(center, lo, hi) == [k \in 1..(hi - lo + 1) |-> AddDays(center, lo + k - 1)]


(***************************************************************************)
(* Program constants of InfiniteTimelineView.                              *)
(***************************************************************************)
InitBefore == -14
InitAfter == 21
JumpBefore == -14
JumpAfter == 14
BlockSize == 10
NearTopPx == 800
NearBottomPx == 400
PrependDelayMs == 100
DebounceMs == 200
RapidWindowMs == 120
RapidDeltaPx == 80
RapidResetMs == 200
ReadLinePx == 80
InitScrollDelayMs == 50
JumpScrollDelayMs == 100
InstantCorrectionPx == 20

(***************************************************************************)
(* Layout of the scroll container: "px-6 pt-2 pb-32" around a "space-y-8"  *)
(* column of day rows, each "min-h-[100px]" and taller when the day holds  *)
(* events.  Which days are taller is fixed by BusyDay.                     *)
(***************************************************************************)
PadTop == 8
PadBottom == 128
RowGap == 32
MinRowHeight == 100
BusyRowExtra == 150

Min(a, b) == IF a < b THEN a ELSE b
Max(a, b) == IF a > b THEN a ELSE b
Abs(a) == IF a < 0 THEN -a ELSE a

BusyDay(d) == d % 3 = 0

RowHeight(d) == MinRowHeight + (IF BusyDay(d) THEN BusyRowExtra ELSE 0)

\* offsetTop of the k-th row (1-based) of the rendered window w: the padding and the
\* rows above it, each followed by the gap
OffsetTop(w, k) ==
  PadTop + (k - 1) * (MinRowHeight + RowGap)
         + BusyRowExtra * Cardinality({ j \in 1..(k - 1) : BusyDay(w[j]) })

\* scrollHeight of the container rendering window w
ScrollHeight(w) ==
  IF Len(w) = 0 THEN PadTop + PadBottom
  ELSE OffsetTop(w, Len(w)) + RowHeight(w[Len(w)]) + PadBottom

MaxScrollTop(w) == Max(0, ScrollHeight(w) - ClientHeight)

\* the browser keeps scrollTop within the scrollable range
ClampScroll(w, top) == Max(0, Min(top, MaxScrollTop(w)))

\* querySelector(`[data-date="..."]`): the index of the first row of that day, 0 if none
RowOfDay(w, d) ==
  LET rows == { k \in 1..Len(w) : w[k] = d }
  IN IF rows = {} THEN 0 ELSE CHOOSE k \in rows : \A j \in rows : k <= j

\* the offsets the scroll events of the model report for window w: one within the
\* near-top threshold, one clear of both thresholds, one within the near-bottom threshold
ScrollTargets(w) ==
  { ClampScroll(w, t) : t \in { NearTopPx - 100, NearTopPx + 100,
                                 MaxScrollTop(w) - (NearBottomPx - 100) } }

\* offsets clear of both thresholds, near the start and near the end of the window
MidTargets(w) ==
  { ClampScroll(w, t) : t \in { NearTopPx + 100, MaxScrollTop(w) - (NearBottomPx + 100) } }

\* lastScrollAge stops counting once it is past every threshold it is compared with
AgeCap == RapidResetMs + TickMs

StartDates == { MakeDay(EpochYear, 11, 20) }

NowDates == UNION { s..(s + MaxNowAdvance) : s \in StartDates }

\* the longest window the model lets the timeline grow to
MaxWindowLen == (JumpAfter - JumpBefore + 1) + BlockSize * MaxExtensions

Observe(op, calls) == [op |-> op, calls |-> calls]

(***************************************************************************)
(* The steps of handleScroll, the layout effect and jumpToToday.           *)
(***************************************************************************)
\* initial load effect: for (let i = -14; i <= 21; i++)
InitialDays(center) == DaysAround(center, InitBefore, InitAfter)

\* jumpToToday with the range of the initial load
JumpDaysInitialRange(today) == DaysAround(today, InitBefore, InitAfter)

\* jumpToToday: for (let i = -14; i <= 14; i++)
JumpDays(today) == DaysAround(today, JumpBefore, JumpAfter)

\* the prepend loop started one day early: for (let i = 11; i >= 2; i--)
PrependBlockEarly(firstDate) == [k \in 1..BlockSize |-> AddDays(firstDate, -(BlockSize + 2 - k))]

\* the append loop started at the last day: for (let i = 0; i < 10; i++)
AppendBlockFromLast(lastDate) == [k \in 1..BlockSize |-> AddDays(lastDate, k - 1)]

\* handleScroll, prepend: for (let i = 10; i >= 1; i--) newDays.push(firstDate - i)
PrependBlock(firstDate) == [k \in 1..BlockSize |-> AddDays(firstDate, -(BlockSize + 1 - k))]

\* handleScroll, append: for (let i = 1; i <= 10; i++) newDays.push(lastDate + i)
AppendBlock(lastDate) == [k \in 1..BlockSize |-> AddDays(lastDate, k)]

\* return [...newDays, ...prev]
PrependedDays(prev) == PrependBlock(prev[1]) \o prev

\* return [...prev, ...newDays]
AppendedDays(prev) == prev \o AppendBlock(prev[Len(prev)])

\* rapid scroll detection leaving rapid mode as soon as the rapid window has passed
RapidAfterShortMemory(timeDelta, scrollDelta, was) ==
  IF timeDelta < RapidWindowMs /\ scrollDelta > RapidDeltaPx THEN TRUE
  ELSE IF timeDelta > RapidWindowMs THEN FALSE
  ELSE was

\* rapid scroll detection
RapidAfter(timeDelta, scrollDelta, was) ==
  IF timeDelta < RapidWindowMs /\ scrollDelta > RapidDeltaPx THEN TRUE
  ELSE IF timeDelta > RapidResetMs THEN FALSE
  ELSE was

\* if (scrollTop < 800 && !isPrependingRef.current)
WantsPrepend(top, flag) == top < NearTopPx /\ ~flag

\* the append condition without its in-flight test
WantsAppendUnguarded(top, height, flag) ==
  /\ ~WantsPrepend(top, flag)
  /\ height - top - ClientHeight < NearBottomPx

\* else if (scrollHeight - scrollTop - clientHeight < 400 && !isPrependingRef.current)
WantsAppend(top, height, flag) ==
  /\ ~WantsPrepend(top, flag)
  /\ height - top - ClientHeight < NearBottomPx
  /\ ~flag

\* if (!isRapidScrollingRef.current) { wrapper.children[0] ... }
CapturesAnchor(rapid, w) == ~rapid /\ Len(w) > 0

\* the pending timer left to run
KeepTimers(timers) == timers

\* clearTimeout(scrollTimeoutRef.current)
ClearLatest(timers) == SelectSeq(timers, LAMBDA t : ~t.latest)

\* scrollTimeoutRef.current = setTimeout(.., 200)
WithNewVisibleTimer(timers, cd) ==
  [k \in 1..Len(timers) |-> [timers[k] EXCEPT !.latest = FALSE]]
    \o << [rem |-> DebounceMs, cd |-> cd, latest |-> TRUE] >>

\* layout effect: if (isPrependingRef.current && containerRef.current && anchorElementRef.current)
RestoreRuns(flag, anchor) == flag /\ anchor # << >>

\* const scrollAdjustment = currentOffset - anchorOffsetRef.current
ScrollAdjustment(currentOffset, recorded) == currentOffset - recorded

\* the layout effect's scrollTop after window w is rendered
RestoredScrollTop(w, flag, anchor, recorded, rapid, top) ==
  IF RestoreRuns(flag, anchor) /\ ~rapid /\ RowOfDay(w, anchor[1]) # 0
  THEN ClampScroll(w, top + ScrollAdjustment(OffsetTop(w, RowOfDay(w, anchor[1])), recorded))
  ELSE ClampScroll(w, top)

\* the scan testing the top edge of the rows: rect.top > containerRect.top + 80
RECURSIVE ScanRowsTopEdge(_, _, _, _)
ScanRowsTopEdge(w, top, k, offset) ==
  IF k > Len(w) THEN 0
  ELSE IF offset - top > ReadLinePx THEN k
  ELSE ScanRowsTopEdge(w, top, k + 1, offset + RowHeight(w[k]) + RowGap)

\* visible-day scan: the first row with rect.bottom > containerRect.top + 80; 0 if none
RECURSIVE ScanRows(_, _, _, _)
ScanRows(w, top, k, offset) ==
  IF k > Len(w) THEN 0
  ELSE IF offset + RowHeight(w[k]) - top > ReadLinePx THEN k
  ELSE ScanRows(w, top, k + 1, offset + RowHeight(w[k]) + RowGap)

VisibleRow(w, top) == ScanRows(w, top, 1, PadTop)

\* visibleDate.getMonth() !== currentDate.getMonth() || visibleDate.getFullYear() !== ...
MonthChanged(visibleDate, cd) ==
  \/ MonthFromTime(visibleDate) # MonthFromTime(cd)
  \/ YearFromTime(visibleDate) # YearFromTime(cd)

\* the rows the scan reports to onDateClick, in order (the loop breaks at the first visible row)
ReportedDays(w, top, cd) ==
  LET row == VisibleRow(w, top)
  IN IF row # 0 /\ MonthChanged(w[row], cd) THEN << w[row] >> ELSE << >>

\* scrollToDate(date, behavior): scrollIntoView({block: 'start'}), minus 20 when instant
ScrollToDate(w, date, instant, top) ==
  IF RowOfDay(w, date) = 0 THEN top
  ELSE IF instant
       THEN ClampScroll(w, ClampScroll(w, OffsetTop(w, RowOfDay(w, date))) - InstantCorrectionPx)
       ELSE ClampScroll(w, OffsetTop(w, RowOfDay(w, date)))

PendingPrepends == Len(prependTimers) + Len(prependRafs)

\* every timer ms nearer to its deadline, or further past it
Elapse(timers, ms) ==
  [k \in 1..Len(timers) |-> [timers[k] EXCEPT !.rem = timers[k].rem - ms]]

\* no callback of timers is due
NoneDue(timers) == \A k \in 1..Len(timers) : timers[k].rem > 0

\* the time left to the deadline of every pending timer of the page
Rems(timers) == { timers[k].rem : k \in 1..Len(timers) }

AllRems ==
  Rems(prependTimers) \cup Rems(visibleTimers) \cup Rems(initScrollTimer)
    \cup Rems(jumpScrollTimers)

\* the callback of timer t runs next: its deadline has passed and none is earlier
IsDue(t) == t.rem <= 0 /\ \A r \in AllRems : t.rem <= r

(***************************************************************************)
(* User settings and their copy in localStorage.  A stored text is a        *)
(* sequence of JSON tokens; a JSON value is null, a boolean, a string or an *)
(* object of such values, its fields in insertion order.                   *)
(***************************************************************************)
Tok(k, s) == [k |-> k, s |-> s]

Punct(s) == Tok("punct", s)

JPrim(t, v) == [t |-> t, v |-> v, fields |-> << >>]

JObj(fields) == [t |-> "obj", v |-> "", fields |-> fields]

Field(key, t, v) == [key |-> key, t |-> t, v |-> v]

\* the token of a null, boolean or string value
PrimToken(t, v) == IF t = "str" THEN Tok("str", v) ELSE Tok("lit", v)

IsValueToken(tok) == tok.k = "str" \/ (tok.k = "lit" /\ tok.s \in {"null", "true", "false"})

TokenType(tok) == IF tok.k = "str" THEN "str" ELSE IF tok.s = "null" THEN "null" ELSE "bool"

\* an own property set on an object: in place when the key exists, else added last
PutField(fields, f) ==
  IF \E k \in 1..Len(fields) : fields[k].key = f.key
  THEN [k \in 1..Len(fields) |-> IF fields[k].key = f.key THEN f ELSE fields[k]]
  ELSE Append(fields, f)

RECURSIVE StringifyFields(_)
StringifyFields(fields) ==
  IF fields = << >> THEN << >>
  ELSE << Tok("str", fields[1].key), Punct(":"), PrimToken(fields[1].t, fields[1].v) >>
         \o (IF Len(fields) > 1 THEN << Punct(",") >> \o StringifyFields(Tail(fields)) ELSE << >>)

\* JSON.stringify
JSONStringify(value) ==
  IF value.t = "obj"
  THEN << Punct("{") >> \o StringifyFields(value.fields) \o << Punct("}") >>
  ELSE << PrimToken(value.t, value.v) >>

\* the members of an object text, read left to right onto acc; ok is FALSE on a syntax error
RECURSIVE ParseMembers(_, _)
ParseMembers(toks, acc) ==
  IF Len(toks) < 3 \/ toks[1].k # "str" \/ toks[2] # Punct(":") \/ ~IsValueToken(toks[3])
  THEN [ok |-> FALSE, value |-> JPrim("null", "null")]
  ELSE LET fields == PutField(acc, Field(toks[1].s, TokenType(toks[3]), toks[3].s))
       IN IF Len(toks) = 3 THEN [ok |-> TRUE, value |-> JObj(fields)]
          ELSE IF toks[4] = Punct(",") THEN ParseMembers(SubSeq(toks, 5, Len(toks)), fields)
          ELSE [ok |-> FALSE, value |-> JPrim("null", "null")]

\* JSON.parse: ok is FALSE where it throws
JSONParse(text) ==
  IF Len(text) = 1 /\ IsValueToken(text[1])
  THEN [ok |-> TRUE, value |-> JPrim(TokenType(text[1]), text[1].s)]
  ELSE IF Len(text) >= 2 /\ text[1] = Punct("{") /\ text[Len(text)] = Punct("}")
       THEN IF Len(text) = 2 THEN [ok |-> TRUE, value |-> JObj(<< >>)]
            ELSE ParseMembers(SubSeq(text, 2, Len(text) - 1), << >>)
       ELSE [ok |-> FALSE, value |-> JPrim("null", "null")]

\* { theme: "dark", isGoogleConnected: false, hasCompletedTour: false }
UserSettings(theme, connected, tour) ==
  JObj(<< Field("theme", "str", theme),
          Field("isGoogleConnected", "bool", connected),
          Field("hasCompletedTour", "bool", tour) >>)

DefaultSettings == UserSettings("dark", "false", "false")

Stored(text) == [present |-> TRUE, text |-> text]

\* localStorage.getItem returns null
NotStored == [present |-> FALSE, text |-> << >>]

\* the restore without the catch: a text that does not parse leaves no settings
RestoreSettingsNoCatch(saved) ==
  IF ~saved.present \/ saved.text = << >> THEN DefaultSettings
  ELSE JSONParse(saved.text).value

\* useState initializer: saved ? JSON.parse(saved) : defaults, defaults on a throw
RestoreSettings(saved) ==
  IF ~saved.present \/ saved.text = << >> THEN DefaultSettings
  ELSE IF JSONParse(saved.text).ok THEN JSONParse(saved.text).value
       ELSE DefaultSettings

\* { ...prev, key: value }
WithField(prev, key, t, v) ==
  JObj(PutField(IF prev.t = "obj" THEN prev.fields ELSE << >>, Field(key, t, v)))

\* a value used as a condition
Truthy(t, v) == (t = "bool" /\ v = "true") \/ (t = "str" /\ v # "")

\* settings.isGoogleConnected as a condition
IsGoogleConnected(s) ==
  \E k \in 1..Len(s.fields) :
     s.fields[k].key = "isGoogleConnected" /\ Truthy(s.fields[k].t, s.fields[k].v)

(***************************************************************************)
(* The Event Store.  Instants are milliseconds from the midnight that      *)
(* starts the day the page is opened; a local event carries no googleId.   *)
(***************************************************************************)
HourMs == 60 * 60 * 1000

DayMs == 24 * HourMs

CalendarEvent(id, googleId, start, end) ==
  [id |-> id, googleId |-> googleId, start |-> start, end |-> end]

\* the time of day at which the page is opened
OpenedAt == 9 * HourMs

\* the three events the store is constructed with; lag is the time that passes
\* between the clock reading of the third event's start and that of its end
InitialEvents(lag) ==
  << CalendarEvent("1", "", 11 * HourMs, 11 * HourMs + HourMs \div 2),
     CalendarEvent("2", "", 13 * HourMs, 15 * HourMs),
     CalendarEvent("3", "", OpenedAt + 2 * DayMs, OpenedAt + lag + 2 * DayMs) >>

\* the mapping that leaves the end as it was received
MapGoogleEventUncorrected(gEvent) ==
  CalendarEvent(gEvent.id, gEvent.id, gEvent.start, gEvent.end)

\* mapGoogleEventToAppEvent: an end not after the start is moved on by one hour
MapGoogleEvent(gEvent) ==
  CalendarEvent(gEvent.id, gEvent.id, gEvent.start,
                IF gEvent.end <= gEvent.start THEN gEvent.end + HourMs ELSE gEvent.end)

\* listUpcomingEvents: the events of every calendar, concatenated, then mapped
ListUpcomingEvents(allEvents) == [k \in 1..Len(allEvents) |-> MapGoogleEvent(allEvents[k])]

Ids(list) == { list[k].id : k \in 1..Len(list) }

\* the merge without the filter on ids
MergeFetchedUnfiltered(prev, googleEvents) == prev \o googleEvents

\* setEvents(prev => [...prev, ...googleEvents.filter(ge => !existingIds.has(ge.id))])
MergeFetched(prev, googleEvents) ==
  prev \o SelectSeq(googleEvents, LAMBDA ge : ge.id \notin Ids(prev))

\* the filter that drops every event but the first
WithoutAllButFirst(prev) == SubSeq(prev, 1, 1)

\* setEvents(prev => prev.filter(e => !e.googleId))
WithoutGoogleEvents(prev) == SelectSeq(prev, LAMBDA e : e.googleId = "")

\* setEvents(prev => prev.map(e => e.id === updatedEvent.id ? updatedEvent : e))
WithUpdated(prev, updatedEvent) ==
  [k \in 1..Len(prev) |-> IF prev[k].id = updatedEvent.id THEN updatedEvent ELSE prev[k]]

\* setEvents(prev => prev.filter(e => e.id !== eventId))
WithoutEvent(prev, eventId) == SelectSeq(prev, LAMBDA e : e.id # eventId)

\* no call of listUpcomingEvents is pending
NoFetch == [auto |-> 0, connect |-> 0]

\* the sync state of a page that has just been opened, or is closed
\* the module state of googleCalendarService at load, nothing stored, no
\* call of initializeGoogleApi yet
NoLoader ==
  [called |-> FALSE, gapi |-> FALSE, google |-> FALSE, loads |-> 0,
   interval |-> FALSE, timeout |-> FALSE, ticks |-> 0, calls |-> 0]

NoAuthLog == [at |-> << >>, signedOut |-> {}]

ServiceAtRest ==
  /\ gapiInited = FALSE
  /\ gisInited = FALSE
  /\ currentAccessToken = 0
  /\ authStorage = << >>
  /\ clock = 0
  /\ authLog = NoAuthLog
  /\ loader = NoLoader

NoSync ==
  /\ isApiReady = FALSE
  /\ importing = FALSE
  /\ isSyncing = FALSE
  /\ authPending = 0
  /\ fetching = NoFetch

\* App as the timeline specifications see it: open, default settings saved
AppAtRest ==
  /\ running = TRUE
  /\ settings = DefaultSettings
  /\ savedSettings = Stored(JSONStringify(DefaultSettings))
  /\ events = InitialEvents(0)
  /\ NoSync
  /\ ServiceAtRest

syncVars == << isApiReady, importing, isSyncing, authPending, fetching >>

serviceVars ==
  << gapiInited, gisInited, currentAccessToken, authStorage, clock, authLog, loader >>

storeVars == << running, settings, savedSettings, events, syncVars, serviceVars >>

pureVars == << fnIn, fnOut >>
appVars == << currentDate, now >>
anchorVars == << isPrepending, anchorElement, anchorOffset >>
sampleVars == << lastScrollAge, lastScrollTop, isRapidScrolling >>
prependVars == << prependTimers, prependRafs >>
visibleVars == << visibleTimers, visibleRafs >>
scrollToVars == << initScrollTimer, jumpScrollTimers >>

Init ==
  /\ mounted = FALSE
  /\ timelineDays = << >>
  /\ isPrepending = FALSE
  /\ anchorElement = << >>
  /\ anchorOffset = 0
  /\ lastScrollAge = AgeCap
  /\ lastScrollTop = 0
  /\ isRapidScrolling = FALSE
  /\ scrollTop = 0
  /\ prependTimers = << >>
  /\ prependRafs = << >>
  /\ visibleTimers = << >>
  /\ visibleRafs = << >>
  /\ initScrollTimer = << >>
  /\ jumpScrollTimers = << >>
  /\ currentDate \in StartDates
  /\ now = currentDate
  /\ ev = Observe("init", 0)
  /\ fnIn = << >>
  /\ fnOut = << >>
  /\ AppAtRest

\* the initial load effect of InfiniteTimelineView
Initialize ==
  /\ ~mounted
  /\ mounted' = TRUE
  /\ timelineDays' = InitialDays(currentDate)
  /\ initScrollTimer' = << [rem |-> InitScrollDelayMs, date |-> currentDate] >>
  /\ scrollTop' = RestoredScrollTop(timelineDays', isPrepending, anchorElement,
                                    anchorOffset, isRapidScrolling, scrollTop)
  /\ ev' = Observe("mount", 0)
  /\ UNCHANGED << anchorVars, sampleVars, prependVars, visibleVars,
                  jumpScrollTimers, appVars, pureVars, storeVars >>

\* handleScroll, the container reporting scroll offset top
HandleScroll(top) ==
  /\ mounted
  /\ ScrollHeight(timelineDays) > ClientHeight
  /\ LET rapid == RapidAfter(lastScrollAge, Abs(top - lastScrollTop), isRapidScrolling)
         prepend == WantsPrepend(top, isPrepending)
         append == WantsAppend(top, ScrollHeight(timelineDays), isPrepending)
         capture == prepend /\ CapturesAnchor(rapid, timelineDays)
         tag == IF capture
                THEN << [day |-> timelineDays[1], offset |-> OffsetTop(timelineDays, 1)] >>
                ELSE << >>
     IN /\ (prepend \/ append) =>
             Len(timelineDays) + BlockSize * (PendingPrepends + 1) <= MaxWindowLen
        /\ prepend => PendingPrepends < MaxPendingPrepends
        /\ isRapidScrolling' = rapid
        /\ lastScrollAge' = 0
        /\ lastScrollTop' = top
        /\ isPrepending' = (isPrepending \/ prepend)
        /\ anchorElement' = IF capture THEN << timelineDays[1] >> ELSE anchorElement
        /\ anchorOffset' = IF capture THEN OffsetTop(timelineDays, 1) ELSE anchorOffset
        /\ prependTimers' = IF prepend
                            THEN Append(prependTimers, [rem |-> PrependDelayMs, tag |-> tag])
                            ELSE prependTimers
        /\ timelineDays' = IF append THEN AppendedDays(timelineDays) ELSE timelineDays
        /\ scrollTop' = IF append
                        THEN RestoredScrollTop(timelineDays', isPrepending', anchorElement',
                                               anchorOffset', rapid, top)
                        ELSE top
        /\ visibleTimers' = WithNewVisibleTimer(ClearLatest(visibleTimers), currentDate)
        /\ ev' = Observe("scroll", 0)
  /\ UNCHANGED << mounted, prependRafs, visibleRafs, scrollToVars, appVars, pureVars, storeVars >>

\* the setTimeout(.., 100) callback of handleScroll: requestAnimationFrame(..)
PrependTimerFires ==
  /\ prependTimers # << >>
  /\ IsDue(Head(prependTimers))
  /\ prependTimers' = Tail(prependTimers)
  /\ prependRafs' = Append(prependRafs, Head(prependTimers).tag)
  /\ ev' = Observe("other", 0)
  /\ UNCHANGED << mounted, timelineDays, anchorVars, sampleVars, scrollTop, visibleVars,
                  scrollToVars, appVars, pureVars, storeVars >>

\* the animation frame callback that prepends, the render and its layout effect
PrependFrame ==
  /\ prependRafs # << >>
  /\ prependRafs' = Tail(prependRafs)
  /\ timelineDays' = PrependedDays(timelineDays)
  /\ scrollTop' = RestoredScrollTop(timelineDays', isPrepending, anchorElement,
                                    anchorOffset, isRapidScrolling, scrollTop)
  /\ isPrepending' = IF RestoreRuns(isPrepending, anchorElement) THEN FALSE ELSE isPrepending
  /\ anchorElement' = IF RestoreRuns(isPrepending, anchorElement) THEN << >> ELSE anchorElement
  /\ ev' = Observe("prepend", 0)
  /\ UNCHANGED << mounted, anchorOffset, sampleVars, prependTimers, visibleVars,
                  scrollToVars, appVars, pureVars, storeVars >>

\* the setTimeout(.., 200) callback of handleScroll: requestAnimationFrame(..)
VisibleTimerFires ==
  \E k \in 1..Len(visibleTimers) :
    /\ IsDue(visibleTimers[k])
    /\ visibleTimers' = [j \in 1..(Len(visibleTimers) - 1) |->
                           IF j < k THEN visibleTimers[j] ELSE visibleTimers[j + 1]]
    /\ visibleRafs' = Append(visibleRafs, visibleTimers[k].cd)
    /\ ev' = Observe("visibleTimer", 0)
    /\ UNCHANGED << mounted, timelineDays, anchorVars, sampleVars, scrollTop, prependVars,
                    scrollToVars, appVars, pureVars, storeVars >>

\* the animation frame callback that scans the rows and calls onDateClick (handleDateSelect)
VisibleFrame ==
  /\ visibleRafs # << >>
  /\ visibleRafs' = Tail(visibleRafs)
  /\ LET calls == ReportedDays(timelineDays, scrollTop, Head(visibleRafs))
     IN /\ currentDate' = IF calls = << >> THEN currentDate ELSE calls[Len(calls)]
        /\ ev' = Observe("visibleCheck", Len(calls))
  /\ UNCHANGED << mounted, timelineDays, anchorVars, sampleVars, scrollTop, prependVars,
                  visibleTimers, scrollToVars, now, pureVars, storeVars >>

\* jumpToToday, its render and layout effect
JumpToToday ==
  /\ mounted
  /\ Len(jumpScrollTimers) < MaxPendingJumps
  /\ timelineDays' = JumpDays(now)
  /\ isPrepending' = FALSE
  /\ currentDate' = now
  /\ jumpScrollTimers' = Append(jumpScrollTimers, [rem |-> JumpScrollDelayMs, date |-> now])
  /\ scrollTop' = RestoredScrollTop(timelineDays', isPrepending', anchorElement,
                                    anchorOffset, isRapidScrolling, scrollTop)
  /\ ev' = Observe("jump", 1)
  /\ UNCHANGED << mounted, anchorElement, anchorOffset, sampleVars, prependVars, visibleVars,
                  initScrollTimer, now, pureVars, storeVars >>

\* setTimeout(() => scrollToDate(currentDate, 'instant'), 50)
InitScrollFires ==
  /\ initScrollTimer # << >>
  /\ IsDue(initScrollTimer[1])
  /\ initScrollTimer' = << >>
  /\ scrollTop' = ScrollToDate(timelineDays, initScrollTimer[1].date, TRUE, scrollTop)
  /\ ev' = Observe("other", 0)
  /\ UNCHANGED << mounted, timelineDays, anchorVars, sampleVars, prependVars, visibleVars,
                  jumpScrollTimers, appVars, pureVars, storeVars >>

\* setTimeout(() => scrollToDate(today, 'smooth'), 100)
JumpScrollFires ==
  /\ jumpScrollTimers # << >>
  /\ IsDue(Head(jumpScrollTimers))
  /\ jumpScrollTimers' = Tail(jumpScrollTimers)
  /\ scrollTop' = ScrollToDate(timelineDays, Head(jumpScrollTimers).date, FALSE, scrollTop)
  /\ ev' = Observe("other", 0)
  /\ UNCHANGED << mounted, timelineDays, anchorVars, sampleVars, prependVars, visibleVars,
                  initScrollTimer, appVars, pureVars, storeVars >>

\* the dates SmartScheduler passes to onNavigate (the start of a created event)
NavDates == { AddDays(now, 40) }

\* App.handleDateSelect called by SmartScheduler.onNavigate
Navigate ==
  \E d \in NavDates :
    /\ mounted
    /\ currentDate' = d
    /\ ev' = Observe("other", 0)
    /\ UNCHANGED << mounted, timelineDays, anchorVars, sampleVars, scrollTop, prependVars,
                    visibleVars, scrollToVars, now, pureVars, storeVars >>

\* App's clock ticker: setNow(new Date()) on a later day
AdvanceNow ==
  /\ (now + 1) \in NowDates
  /\ now' = now + 1
  /\ ev' = Observe("other", 0)
  /\ UNCHANGED << mounted, timelineDays, anchorVars, sampleVars, scrollTop, prependVars,
                  visibleVars, scrollToVars, currentDate, pureVars, storeVars >>

\* ms pass while nothing runs; the callbacks that were due have run
Tick(ms) ==
  /\ prependRafs = << >>
  /\ visibleRafs = << >>
  /\ NoneDue(prependTimers) /\ NoneDue(visibleTimers)
  /\ NoneDue(initScrollTimer) /\ NoneDue(jumpScrollTimers)
  /\ lastScrollAge' = Min(AgeCap, lastScrollAge + ms)
  /\ prependTimers' = Elapse(prependTimers, ms)
  /\ visibleTimers' = Elapse(visibleTimers, ms)
  /\ initScrollTimer' = Elapse(initScrollTimer, ms)
  /\ jumpScrollTimers' = Elapse(jumpScrollTimers, ms)
  /\ ev' = Observe("other", 0)
  /\ UNCHANGED << mounted, timelineDays, anchorVars, lastScrollTop, isRapidScrolling,
                  scrollTop, prependRafs, visibleRafs, appVars, pureVars, storeVars >>

\* a tick, or a stall of the main thread
Pass == \E ms \in {TickMs, AgeCap} : Tick(ms)

Scroll == \E top \in ScrollTargets(timelineDays) : HandleScroll(top)

\* scroll events that stay clear of both edges of the window
ScrollAway == \E top \in MidTargets(timelineDays) : HandleScroll(top)

\* the timeline on its own: the displayed date changes only through its callbacks
Next ==
  \/ Initialize
  \/ Scroll
  \/ PrependTimerFires
  \/ PrependFrame
  \/ VisibleTimerFires
  \/ VisibleFrame
  \/ JumpToToday
  \/ InitScrollFires
  \/ JumpScrollFires
  \/ Pass

Spec == Init /\ [][Next]_vars

\* the timeline inside App: events are created and the day changes while it scrolls
\* clear of its edges
AppNext ==
  \/ Initialize
  \/ ScrollAway
  \/ VisibleTimerFires
  \/ VisibleFrame
  \/ JumpToToday
  \/ InitScrollFires
  \/ JumpScrollFires
  \/ Navigate
  \/ AdvanceNow
  \/ Pass

AppSpec == Init /\ [][AppNext]_vars

(***************************************************************************)
(* The window generator on its own: the loop shared by the initial load    *)
(* effect and jumpToToday, applied to every center of a whole year.        *)
(***************************************************************************)
GenCenters == DayFromYear(EpochYear + 1)..(DayFromYear(EpochYear + 2) - 1)

GenRanges ==
  { r \in { InitBefore, JumpBefore, -3, 0 } \X { 0, 3, JumpAfter, InitAfter } : r[1] <= r[2] }

GenInit ==
  /\ mounted = FALSE
  /\ timelineDays = << >>
  /\ isPrepending = FALSE
  /\ anchorElement = << >>
  /\ anchorOffset = 0
  /\ lastScrollAge = AgeCap
  /\ lastScrollTop = 0
  /\ isRapidScrolling = FALSE
  /\ scrollTop = 0
  /\ prependTimers = << >>
  /\ prependRafs = << >>
  /\ visibleTimers = << >>
  /\ visibleRafs = << >>
  /\ initScrollTimer = << >>
  /\ jumpScrollTimers = << >>
  /\ currentDate \in StartDates
  /\ now = currentDate
  /\ ev = Observe("init", 0)
  /\ fnIn \in { [center |-> c, lo |-> r[1], hi |-> r[2]] : c \in GenCenters, r \in GenRanges }
  /\ fnOut = << >>
  /\ AppAtRest

\* the generator loop run from lo to hi
Generate ==
  /\ ev.op = "init"
  /\ fnOut' = DaysAround(fnIn.center, fnIn.lo, fnIn.hi)
  /\ ev' = Observe("generate", 0)
  /\ UNCHANGED << mounted, timelineDays, anchorVars, sampleVars, scrollTop, prependVars,
                  visibleVars, scrollToVars, appVars, fnIn, storeVars >>

\* the loop of the initial load effect
GenerateInitial ==
  /\ ev.op = "init"
  /\ fnOut' = InitialDays(fnIn.center)
  /\ ev' = Observe("initialDays", 0)
  /\ UNCHANGED << mounted, timelineDays, anchorVars, sampleVars, scrollTop, prependVars,
                  visibleVars, scrollToVars, appVars, fnIn, storeVars >>

\* the loop of jumpToToday
GenerateJump ==
  /\ ev.op = "init"
  /\ fnOut' = JumpDays(fnIn.center)
  /\ ev' = Observe("jumpDays", 0)
  /\ UNCHANGED << mounted, timelineDays, anchorVars, sampleVars, scrollTop, prependVars,
                  visibleVars, scrollToVars, appVars, fnIn, storeVars >>

GenNext ==
  \/ Generate
  \/ GenerateInitial
  \/ GenerateJump

GenSpec == GenInit /\ [][GenNext]_vars

(***************************************************************************)
(* Properties.                                                             *)
(***************************************************************************)
\* every entry of w is the day after its predecessor
Consecutive(w) == \A i \in 1..(Len(w) - 1) : w[i + 1] = w[i] + 1

\* C1: in every reachable state of the timeline the Day Window is free of duplicates,
\* strictly increasing, and every entry is exactly one day after its predecessor.
C1_WindowContiguous ==
  /\ Consecutive(timelineDays)
  /\ \A i, j \in 1..Len(timelineDays) : i < j => timelineDays[i] < timelineDays[j]

\* a jumped window that was since extended at both ends, the prepend last
C1_Witness ==
  /\ ev.op = "prepend"
  /\ Len(timelineDays) = 49
  /\ timelineDays[1] = now - 24
  /\ timelineDays[49] = now + 24

\* C2: for any center and inclusive range lo..hi the generated window has hi - lo + 1
\* entries, starts at center + lo and advances by exactly one day per entry; the initial
\* load yields the 36 days center-14 .. center+21 and the jump the 29 days
\* center-14 .. center+14.
C2_GeneratedWindow ==
  /\ ev.op = "generate" =>
        /\ Len(fnOut) = fnIn.hi - fnIn.lo + 1
        /\ fnOut[1] = fnIn.center + fnIn.lo
        /\ Consecutive(fnOut)
  /\ ev.op = "initialDays" =>
        /\ Len(fnOut) = 36
        /\ fnOut[1] = fnIn.center - 14
        /\ fnOut[36] = fnIn.center + 21
        /\ Consecutive(fnOut)
  /\ ev.op = "jumpDays" =>
        /\ Len(fnOut) = 29
        /\ fnOut[1] = fnIn.center - 14
        /\ fnOut[29] = fnIn.center + 14
        /\ Consecutive(fnOut)

\* a window generated around a day of February that runs into March
C2_Witness ==
  /\ ev.op = "generate"
  /\ fnIn.lo = -14
  /\ fnIn.hi = 21
  /\ MonthFromTime(fnIn.center) = 1
  /\ MonthFromTime(fnOut[1]) = 0
  /\ MonthFromTime(fnOut[Len(fnOut)]) = 2

\* C3: a prepend turns a window of N days into one of N + 10 days whose last N entries
\* are the old window and whose 10th entry is the day before the old first day.
C3_PrependSeam ==
  [][ev'.op = "prepend" =>
       /\ Len(timelineDays') = Len(timelineDays) + 10
       /\ SubSeq(timelineDays', 11, Len(timelineDays')) = timelineDays
       /\ timelineDays'[10] = timelineDays[1] - 1]_vars

\* a prepend onto a jumped window
C3_Witness ==
  /\ ev.op = "prepend"
  /\ Len(timelineDays) = 39
  /\ timelineDays[11] = now - 14

\* C4: jumpToToday, from any state, replaces the window by exactly the 29 days
\* now-14 .. now+14 and hands now to the parent.
C4_JumpReplaces ==
  [][ev'.op = "jump" =>
       /\ timelineDays' = [k \in 1..29 |-> now - 15 + k]
       /\ currentDate' = now]_vars

\* a jump while a prepend was scheduled and the parent displayed another month
C4_Witness ==
  /\ ev.op = "jump"
  /\ PendingPrepends > 0
  /\ Len(timelineDays) = 29
  /\ \E k \in 1..Len(visibleTimers) : MonthChanged(visibleTimers[k].cd, now)

\* C5: when a prepend whose scroll event captured an anchor is rendered with rapid-scroll
\* mode off, the scroll offset grows by exactly the anchor row's new offset minus the
\* offset recorded at capture.
C5_AnchorRestored ==
  [][(/\ ev'.op = "prepend"
      /\ Head(prependRafs) # << >>
      /\ ~isRapidScrolling
      /\ RowOfDay(timelineDays', Head(prependRafs)[1].day) # 0)
     => scrollTop' = scrollTop
                       + OffsetTop(timelineDays', RowOfDay(timelineDays', Head(prependRafs)[1].day))
                       - Head(prependRafs)[1].offset]_vars

\* C6: a near-top scroll event in rapid-scroll mode captures no anchor, and the render of
\* the prepend it scheduled leaves the scroll offset as it was.
C6_RapidUncorrected ==
  [][/\ (/\ ev'.op = "scroll"
          /\ Len(prependTimers') > Len(prependTimers)
          /\ isRapidScrolling')
         => /\ prependTimers'[Len(prependTimers')].tag = << >>
            /\ anchorElement' = anchorElement
            /\ anchorOffset' = anchorOffset
     /\ (ev'.op = "prepend" /\ Head(prependRafs) = << >>) => scrollTop' = scrollTop]_vars

\* C7: once the prepended window has been rendered, the in-flight flag and the anchor
\* are cleared, whether or not an anchor had been captured.
C7_ClearedAfterRender ==
  ev.op = "prepend" => (~isPrepending /\ anchorElement = << >>)

C9_SilentWhenSameMonth ==
  [][(ev'.op = "visibleCheck" /\ ev'.calls > 0) => MonthChanged(currentDate', currentDate)]_vars

C11_JumpClearsInFlight ==
  ev.op = "jump" => (~isPrepending /\ anchorElement = << >>)

(***************************************************************************)
(* Day Bucketing: getEventsForDay of CalendarView.  An instant is a local   *)
(* calendar day and a time of day, counted in slots of the day.            *)
(***************************************************************************)
SlotsPerDay == 2
MaxEvents == 3

\* the local calendar day of an instant
DayOfInstant(t) == t \div SlotsPerDay

Instant(day, slot) == day * SlotsPerDay + slot

\* the filter without its year test
SameDayFieldsNoYear(a, b) ==
  /\ DateFromTime(DayOfInstant(a)) = DateFromTime(DayOfInstant(b))
  /\ MonthFromTime(DayOfInstant(a)) = MonthFromTime(DayOfInstant(b))

\* e.start.getDate() === date.getDate() && getMonth() === ... && getFullYear() === ...
SameDayFields(a, b) ==
  /\ DateFromTime(DayOfInstant(a)) = DateFromTime(DayOfInstant(b))
  /\ MonthFromTime(DayOfInstant(a)) = MonthFromTime(DayOfInstant(b))
  /\ YearFromTime(DayOfInstant(a)) = YearFromTime(DayOfInstant(b))

\* (a, b) => a.start.getTime() - b.start.getTime()
CompareStart(a, b) == a.start - b.start

\* Array.prototype.sort is stable: e goes behind every entry that does not compare greater
RECURSIVE InsertSorted(_, _)
InsertSorted(sorted, e) ==
  IF sorted = << >> THEN << e >>
  ELSE IF CompareStart(Head(sorted), e) <= 0
       THEN << Head(sorted) >> \o InsertSorted(Tail(sorted), e)
       ELSE << e >> \o sorted

RECURSIVE SortByStart(_)
SortByStart(list) ==
  IF list = << >> THEN << >>
  ELSE InsertSorted(SortByStart(SubSeq(list, 1, Len(list) - 1)), list[Len(list)])

\* events.filter(..).sort(..)
GetEventsForDay(list, date) ==
  SortByStart(SelectSeq(list, LAMBDA e : SameDayFields(e.start, date)))

\* the timeline before its mount effect
Unmounted ==
  /\ mounted = FALSE
  /\ timelineDays = << >>
  /\ isPrepending = FALSE
  /\ anchorElement = << >>
  /\ anchorOffset = 0
  /\ lastScrollAge = AgeCap
  /\ lastScrollTop = 0
  /\ isRapidScrolling = FALSE
  /\ scrollTop = 0
  /\ prependTimers = << >>
  /\ prependRafs = << >>
  /\ visibleTimers = << >>
  /\ visibleRafs = << >>
  /\ initScrollTimer = << >>
  /\ jumpScrollTimers = << >>
  /\ currentDate \in StartDates
  /\ now = currentDate

timelineVars ==
  << mounted, timelineDays, anchorVars, sampleVars, scrollTop, prependVars,
     visibleVars, scrollToVars, appVars >>

\* the target day, its neighbours, the same day of another month and of another year
BucketDays ==
  { MakeDay(EpochYear + 1, 0, 30), MakeDay(EpochYear + 1, 0, 31), MakeDay(EpochYear + 1, 1, 1),
    MakeDay(EpochYear + 1, 2, 31), MakeDay(EpochYear + 2, 0, 31) }

BucketStarts == { Instant(d, slot) : d \in BucketDays, slot \in 0..(SlotsPerDay - 1) }

BucketTargets == { Instant(MakeDay(EpochYear + 1, 0, 31), slot) : slot \in 0..(SlotsPerDay - 1) }

\* event lists of up to maxLen events, their ids distinct
BucketLists(maxLen) ==
  UNION { { [k \in 1..n |-> [id |-> k, start |-> starts[k]]] : starts \in [1..n -> BucketStarts] }
          : n \in 0..maxLen }

BucketInit ==
  /\ Unmounted
  /\ AppAtRest
  /\ ev = Observe("init", 0)
  /\ fnIn \in { [events |-> l, date |-> d] : l \in BucketLists(MaxEvents), d \in BucketTargets }
  /\ fnOut = << >>

\* getEventsForDay(date) on the event list
Bucket ==
  /\ ev.op = "init"
  /\ fnOut' = GetEventsForDay(fnIn.events, fnIn.date)
  /\ ev' = Observe("bucket", 0)
  /\ UNCHANGED << timelineVars, fnIn, storeVars >>

BucketNext == Bucket

BucketSpec == BucketInit /\ [][BucketNext]_vars

\* C12: Day Bucketing returns exactly the events of the list that start on the target's
\* calendar day, whatever the time of day, each once, in order of non-decreasing start.
C12_DayBucketing ==
  ev.op = "bucket" =>
    /\ \A k \in 1..Len(fnOut) :
         /\ \E j \in 1..Len(fnIn.events) : fnIn.events[j] = fnOut[k]
         /\ DayOfInstant(fnOut[k].start) = DayOfInstant(fnIn.date)
    /\ \A j \in 1..Len(fnIn.events) :
         DayOfInstant(fnIn.events[j].start) = DayOfInstant(fnIn.date)
           => Cardinality({ k \in 1..Len(fnOut) : fnOut[k] = fnIn.events[j] }) = 1
    /\ \A k \in 1..(Len(fnOut) - 1) : fnOut[k].start <= fnOut[k + 1].start

\* two of three events fall on the target day and come out in the other order
C12_Witness ==
  /\ ev.op = "bucket"
  /\ Len(fnIn.events) = 3
  /\ Len(fnOut) = 2
  /\ fnOut[1].id > fnOut[2].id
  /\ fnOut[1].start < fnOut[2].start

(***************************************************************************)
(* The visible-day scan on its own, at every scroll offset of a window.    *)
(***************************************************************************)
ScanWindows == { InitialDays(c) : c \in StartDates } \cup { JumpDays(c) : c \in StartDates }

ScanInit ==
  /\ Unmounted
  /\ AppAtRest
  /\ ev = Observe("init", 0)
  /\ fnIn \in UNION { { [w |-> w, top |-> t, cd |-> w[1]] : t \in 0..MaxScrollTop(w) }
                       : w \in ScanWindows }
  /\ fnOut = << >>

\* the animation frame callback of the visible-day check, on window w at offset top
Scan ==
  /\ ev.op = "init"
  /\ fnOut' = [row |-> VisibleRow(fnIn.w, fnIn.top),
               calls |-> ReportedDays(fnIn.w, fnIn.top, fnIn.cd)]
  /\ ev' = Observe("scan", Len(fnOut'.calls))
  /\ UNCHANGED << timelineVars, fnIn, storeVars >>

ScanNext == Scan

ScanSpec == ScanInit /\ [][ScanNext]_vars

\* rect.bottom - containerRect.top of row j of window w scrolled to top
BottomInView(w, j, top) == OffsetTop(w, j) + RowHeight(w[j]) - top

\* C13: the Visible Day is the first rendered row, in document order, whose bottom edge
\* is more than 80 px below the viewport top; no row before it is, and the scan stops
\* at it (it reports at most that one day).
C13_FirstVisibleRow ==
  ev.op = "scan" =>
    /\ fnOut.row = 0 => \A j \in 1..Len(fnIn.w) : BottomInView(fnIn.w, j, fnIn.top) <= 80
    /\ fnOut.row # 0 =>
         /\ fnOut.row \in 1..Len(fnIn.w)
         /\ BottomInView(fnIn.w, fnOut.row, fnIn.top) > 80
         /\ \A j \in 1..(fnOut.row - 1) : BottomInView(fnIn.w, j, fnIn.top) <= 80
    /\ Len(fnOut.calls) <= 1
    /\ fnOut.calls # << >> => (fnOut.row # 0 /\ fnOut.calls[1] = fnIn.w[fnOut.row])

\* a row whose top edge is above the reading line and whose bottom edge is below it is
\* chosen, and reported because its month differs from the displayed one
C13_Witness ==
  /\ ev.op = "scan"
  /\ fnOut.row > 20
  /\ OffsetTop(fnIn.w, fnOut.row) - fnIn.top < 80
  /\ fnOut.calls = << fnIn.w[fnOut.row] >>

\* C14: a scroll event, dt after the previous sample and dd away from its offset, makes
\* the mode rapid if dt < 120 and dd > 80, else not rapid if dt > 200, else leaves it;
\* so rapid mode ends only at a scroll event more than 200 ms after the previous sample.
C14_RapidMode ==
  [][/\ ev'.op = "scroll" =>
          isRapidScrolling' =
            (IF lastScrollAge < 120 /\ Abs(lastScrollTop' - lastScrollTop) > 80 THEN TRUE
             ELSE IF lastScrollAge > 200 THEN FALSE
             ELSE isRapidScrolling)
     /\ (isRapidScrolling /\ ~isRapidScrolling') => (ev'.op = "scroll" /\ lastScrollAge > 200)
     /\ (~isRapidScrolling /\ isRapidScrolling') => ev'.op = "scroll"]_vars

\* a near-top scroll event classified as rapid: it set the flag and captured no anchor
C14_Witness ==
  /\ ev.op = "scroll"
  /\ isRapidScrolling
  /\ lastScrollTop < 800
  /\ prependTimers = << [rem |-> 100, tag |-> << >>] >>

(***************************************************************************)
(* Settings persistence: the page is opened on what localStorage holds,    *)
(* the settings change, the page is closed and opened again.               *)
(***************************************************************************)
SettingsValues ==
  { UserSettings(th, c, t) : th \in {"dark", "light"}, c \in {"true", "false"}, t \in {"true", "false"} }

Prefixes(text) == { SubSeq(text, 1, n) : n \in 1..(Len(text) - 1) }

\* damaged texts: a serialisation cut short, or something that is not JSON
CorruptTexts ==
  UNION { Prefixes(JSONStringify(s)) : s \in SettingsValues }
    \cup { << Punct("}") >>, << Tok("lit", "undefined") >> }

\* what localStorage may hold when the page opens: also the empty text and
\* JSON that settings never serialise to
StoredTexts ==
  { JSONStringify(s) : s \in SettingsValues }
    \cup CorruptTexts
    \cup { << >>,
           JSONStringify(JPrim("null", "null")),
           JSONStringify(JPrim("bool", "true")),
           JSONStringify(JObj(<< >>)),
           JSONStringify(JObj(<< Field("theme", "str", "light") >>)) }

\* the timeline is not on screen and the clock has not moved
viewVars ==
  << mounted, timelineDays, anchorVars, sampleVars, scrollTop, prependVars,
     visibleVars, scrollToVars, now >>

\* the page is closed, with something or nothing in localStorage
Closed(storedValues) ==
  /\ Unmounted
  /\ fnIn = << >>
  /\ fnOut = << >>
  /\ ev = Observe("init", 0)
  /\ running = FALSE
  /\ settings = DefaultSettings
  /\ savedSettings \in storedValues
  /\ events = << >>
  /\ NoSync
  /\ ServiceAtRest

SettingsInit == Closed({ NotStored } \cup { Stored(t) : t \in StoredTexts })

\* setEvents and setSettings of the handlers below, followed by the effect
\* that saves the settings
Saved(s) == Stored(JSONStringify(s))

\* App mounts: the state initializers; the first render reads a field of the
\* settings and throws when they are null, and then nothing is mounted and
\* no effect runs; else the effect saves the settings
StartApp ==
  /\ ~running
  /\ settings' = RestoreSettings(savedSettings)
  /\ running' = (settings'.t # "null")
  /\ savedSettings' = IF running' THEN Saved(settings') ELSE savedSettings
  /\ \E lag \in {0, 1} : events' = IF running' THEN InitialEvents(lag) ELSE << >>
  /\ ev' = Observe("start", 0)
  /\ UNCHANGED << timelineVars, pureVars, serviceVars, syncVars >>

\* setSettings(prev => ({ ...prev, hasCompletedTour: value }))
SetTour(value) ==
  /\ running
  /\ settings' = WithField(settings, "hasCompletedTour", "bool", value)
  /\ savedSettings' = Saved(settings')
  /\ ev' = Observe("settings", 0)
  /\ UNCHANGED << timelineVars, pureVars, serviceVars, running, events, syncVars >>

CompleteTour == SetTour("true")

ReplayTour == SetTour("false")

\* the page is closed: the state and the pending calls are gone, localStorage stays
CloseApp ==
  /\ running
  /\ running' = FALSE
  /\ events' = << >>
  /\ isApiReady' = FALSE
  /\ importing' = FALSE
  /\ isSyncing' = FALSE
  /\ authPending' = 0
  /\ fetching' = NoFetch
  /\ ev' = Observe("close", 0)
  /\ UNCHANGED << timelineVars, pureVars, serviceVars, settings, savedSettings >>

\* the callback of initializeGoogleApi: setIsApiReady(true); the auto-sync
\* effect runs on the change and starts its import
ApiReady ==
  /\ running
  /\ ~isApiReady
  /\ isApiReady' = TRUE
  /\ importing' = TRUE
  /\ ev' = Observe("apiReady", 0)
  /\ UNCHANGED << timelineVars, pureVars, serviceVars, running, settings, savedSettings, events,
                  isSyncing, authPending, fetching >>

\* the import of the auto-sync effect resolves: with a stored sign-in the
\* settings are marked connected, the syncing flag is set and a fetch starts
AutoSync ==
  /\ running
  /\ importing
  /\ importing' = FALSE
  /\ \E hasStoredAuth \in BOOLEAN :
       IF hasStoredAuth
       THEN /\ settings' = WithField(settings, "isGoogleConnected", "bool", "true")
            /\ savedSettings' = Saved(settings')
            /\ isSyncing' = TRUE
            /\ fetching' = [fetching EXCEPT !.auto = @ + 1]
       ELSE UNCHANGED << settings, savedSettings, isSyncing, fetching >>
  /\ ev' = Observe("autoSync", 0)
  /\ UNCHANGED << timelineVars, pureVars, serviceVars, running, events, isApiReady, authPending >>

\* the Google Sync button: disabled={!isApiReady || isSyncing}
ButtonEnabled == running /\ isApiReady /\ ~isSyncing

\* handleToggleGoogle while connected: sign out, mark the settings, drop the
\* Google events
Disconnect ==
  /\ ButtonEnabled
  /\ IsGoogleConnected(settings)
  /\ settings' = WithField(settings, "isGoogleConnected", "bool", "false")
  /\ savedSettings' = Saved(settings')
  /\ events' = WithoutGoogleEvents(events)
  /\ ev' = Observe("disconnect", Len(events) - Len(events'))
  /\ UNCHANGED << timelineVars, pureVars, serviceVars, running, syncVars >>

\* handleToggleGoogle while not connected, up to its first await:
\* setIsSyncing(true) and the call of handleAuthClick
Connect ==
  /\ ButtonEnabled
  /\ ~IsGoogleConnected(settings)
  /\ authPending + fetching.connect < MaxFetches
  /\ isSyncing' = TRUE
  /\ authPending' = authPending + 1
  /\ ev' = Observe("connect", 0)
  /\ UNCHANGED << timelineVars, pureVars, serviceVars, running, settings, savedSettings, events,
                  isApiReady, importing, fetching >>

\* the syncing flag left as it is when a sync attempt ends
SyncingKept(flag) == flag

\* finally { setIsSyncing(false) } of handleToggleGoogle and of the auto-sync
SyncingAfter(flag) == FALSE

\* how handleAuthClick settles: true, false (native sign-in failed), or a
\* rejection (web: no token client, no gapi client, an OAuth error)
AuthOutcomes == { "granted", "refused", "rejected" }

\* handleToggleGoogle after await handleAuthClick(): on success the settings
\* are marked and the fetch starts; a rejection is caught and alerted; on
\* both failures the finally block resets the syncing flag
AuthSettles ==
  /\ running
  /\ authPending > 0
  /\ authPending' = authPending - 1
  /\ \E outcome \in AuthOutcomes :
       IF outcome = "granted"
       THEN /\ settings' = WithField(settings, "isGoogleConnected", "bool", "true")
            /\ savedSettings' = Saved(settings')
            /\ fetching' = [fetching EXCEPT !.connect = @ + 1]
            /\ ev' = Observe("signedIn", 0)
            /\ UNCHANGED isSyncing
       ELSE /\ isSyncing' = SyncingAfter(isSyncing)
            /\ ev' = Observe("signInFailed", IF outcome = "rejected" THEN 1 ELSE 0)
            /\ UNCHANGED << settings, savedSettings, fetching >>
  /\ UNCHANGED << timelineVars, pureVars, serviceVars, running, events, isApiReady, importing >>

\* events as the calendars hold them
ExternalEvent(id, start, end) == [id |-> id, start |-> start, end |-> end]

\* what the calendars may return: nothing, one event, two events (one of no
\* length), an event that two calendars both hold, an event that ends early
ExternalLists ==
  { << >>,
    << ExternalEvent("g1", 10 * HourMs, 11 * HourMs) >>,
    << ExternalEvent("g1", 10 * HourMs, 11 * HourMs), ExternalEvent("g2", 12 * HourMs, 12 * HourMs) >>,
    << ExternalEvent("g1", 10 * HourMs, 11 * HourMs), ExternalEvent("g1", 10 * HourMs, 11 * HourMs) >>,
    << ExternalEvent("g3", 14 * HourMs, 12 * HourMs) >> }

\* how listUpcomingEvents settles: it never rejects; without a token, without
\* a calendar list, or on an error it resolves to the empty list
FetchOutcomes ==
  { [failed |-> FALSE, googleEvents |-> ListUpcomingEvents(l)] : l \in ExternalLists }
    \cup { [failed |-> TRUE, googleEvents |-> << >>] }

\* the merge of a settled fetch into the store, within the store bound
Merged(outcome) ==
  /\ events' = MergeFetched(events, outcome.googleEvents)
  /\ Len(events') <= MaxStore

\* the fetch of the auto-sync settles: merge, then finally setIsSyncing(false)
AutoFetchSettles ==
  /\ running
  /\ fetching.auto > 0
  /\ fetching' = [fetching EXCEPT !.auto = @ - 1]
  /\ isSyncing' = SyncingAfter(isSyncing)
  /\ \E outcome \in FetchOutcomes :
       /\ Merged(outcome)
       /\ ev' = Observe(IF outcome.failed THEN "autoFetchFailed" ELSE "autoMerge", 0)
  /\ UNCHANGED << timelineVars, pureVars, serviceVars, running, settings, savedSettings, isApiReady,
                  importing, authPending >>

\* the fetch of handleToggleGoogle settles: merge, then finally
\* setIsSyncing(false); the alert of its catch block needs a rejection
ConnectFetchSettles ==
  /\ running
  /\ fetching.connect > 0
  /\ fetching' = [fetching EXCEPT !.connect = @ - 1]
  /\ isSyncing' = SyncingAfter(isSyncing)
  /\ \E outcome \in FetchOutcomes :
       /\ Merged(outcome)
       /\ ev' = Observe(IF outcome.failed THEN "connectFetchFailed" ELSE "connectMerge", 0)
  /\ UNCHANGED << timelineVars, pureVars, serviceVars, running, settings, savedSettings, isApiReady,
                  importing, authPending >>

\* the calendar day an instant falls on
DateOfInstant(t) == AddDays(now, t \div DayMs)

\* the midnight that starts the day of an instant
DayStart(t) == (t \div DayMs) * DayMs

\* Date.now() at a submit
ClockReadings == { OpenedAt + 60 * 1000, OpenedAt + 120 * 1000 }

\* start and end time of day as the forms may hold them: the default, and an
\* end before the start
FormRanges == { << 9 * HourMs, 10 * HourMs >>, << 10 * HourMs, 9 * HourMs >> }

\* start and end as the AI extraction may return them: an hour of tomorrow
AiRanges == { << DayMs + 9 * HourMs, DayMs + 10 * HourMs >> }

\* onAddEvent(newEvent) with id Date.now().toString(), then onNavigate(newEvent.start)
AddEvent(reading, start, end) ==
  /\ running
  /\ Len(events) < MaxStore
  /\ events' = Append(events, CalendarEvent(ToString(reading), "", start, end))
  /\ currentDate' = DateOfInstant(start)
  /\ ev' = Observe("add", 0)
  /\ UNCHANGED << viewVars, pureVars, serviceVars, running, settings, savedSettings, syncVars >>

\* handleManualSubmit, the form on today's date
ManualSubmit == \E reading \in ClockReadings, r \in FormRanges : AddEvent(reading, r[1], r[2])

\* handleAiSubmit, once the extraction has returned
AiSubmit == \E reading \in ClockReadings, r \in AiRanges : AddEvent(reading, r[1], r[2])

\* EditEventModal.handleSubmit on an event of the store, then handleUpdateEvent
UpdateEvent ==
  /\ running
  /\ \E k \in 1..Len(events), r \in FormRanges :
       events' = WithUpdated(events, [events[k] EXCEPT !.start = DayStart(events[k].start) + r[1],
                                                       !.end = DayStart(events[k].start) + r[2]])
  /\ ev' = Observe("update", 0)
  /\ UNCHANGED << timelineVars, pureVars, serviceVars, running, settings, savedSettings, syncVars >>

\* EditEventModal.handleDelete on an event of the store, then handleDeleteEvent
DeleteEvent ==
  /\ running
  /\ \E k \in 1..Len(events) : events' = WithoutEvent(events, events[k].id)
  /\ ev' = Observe("delete", 0)
  /\ UNCHANGED << timelineVars, pureVars, serviceVars, running, settings, savedSettings, syncVars >>

SettingsNext ==
  \/ StartApp
  \/ CompleteTour
  \/ ReplayTour
  \/ CloseApp
  \/ ApiReady
  \/ AutoSync
  \/ AutoFetchSettles
  \/ Connect
  \/ AuthSettles
  \/ ConnectFetchSettles
  \/ Disconnect

SettingsSpec == SettingsInit /\ [][SettingsNext]_vars

StoreInit == Closed({ NotStored })

StoreNext ==
  \/ StartApp
  \/ CloseApp
  \/ ApiReady
  \/ AutoSync
  \/ AutoFetchSettles
  \/ Connect
  \/ AuthSettles
  \/ ConnectFetchSettles
  \/ Disconnect
  \/ ManualSubmit
  \/ AiSubmit
  \/ UpdateEvent
  \/ DeleteEvent

StoreSpec == StoreInit /\ [][StoreNext]_vars

C16_UniqueIds ==
  \A i, j \in 1..Len(events) : i # j => events[i].id # events[j].id

(***************************************************************************)
(* mapGoogleEventToAppEvent alone, on external events whose start and end  *)
(* are any two instants of a half-hour grid.                               *)
(***************************************************************************)
ExternalInstants == { k * (HourMs \div 2) : k \in 16..24 }

MapInit ==
  /\ Unmounted
  /\ AppAtRest
  /\ ev = Observe("init", 0)
  /\ fnIn \in { ExternalEvent("g1", start, end) : start \in ExternalInstants, end \in ExternalInstants }
  /\ fnOut = << >>

MapEvent ==
  /\ fnOut = << >>
  /\ fnOut' = MapGoogleEvent(fnIn)
  /\ ev' = Observe("map", 0)
  /\ UNCHANGED << timelineVars, fnIn, storeVars >>

MapNext == MapEvent

MapSpec == MapInit /\ [][MapNext]_vars

\* C17: the mapped event ends after it starts, whatever the external start
\* and end; where the external end is not after the start, the mapped end is
\* the external end plus one hour.
C17_MappedEndAfterStart ==
  ev.op = "map" =>
    /\ fnOut.end > fnOut.start
    /\ fnIn.end <= fnIn.start => fnOut.end = fnIn.end + HourMs

\* C18: every event of the store ends after it starts.
C18_StoreEndAfterStart ==
  \A k \in 1..Len(events) : events[k].end > events[k].start

(***************************************************************************)
(* The sync merge alone: a store, a fetched list, the merge and the merge  *)
(* of the same list once more.                                             *)
(***************************************************************************)
\* events a store may hold: initial ones, an added one, fetched ones
StoreEvents ==
  { InitialEvents(0)[1], InitialEvents(0)[2],
    CalendarEvent(ToString(OpenedAt + 60 * 1000), "", 9 * HourMs, 10 * HourMs),
    MapGoogleEvent(ExternalEvent("g1", 10 * HourMs, 11 * HourMs)),
    MapGoogleEvent(ExternalEvent("g2", 9 * HourMs, 10 * HourMs)) }

\* stores of up to two of them, in any order
SomeStores ==
  { << >> } \cup { << a >> : a \in StoreEvents } \cup { << a, b >> : a \in StoreEvents, b \in StoreEvents }

MergeInit ==
  /\ Unmounted
  /\ AppAtRest
  /\ ev = Observe("init", 0)
  /\ fnIn \in { [prev |-> st, fetched |-> ListUpcomingEvents(l)] : st \in SomeStores, l \in ExternalLists }
  /\ fnOut = << >>

\* the merge of the fetched list into the store
Merge ==
  /\ fnOut = << >>
  /\ fnOut' = [prev |-> fnIn.prev, events |-> MergeFetched(fnIn.prev, fnIn.fetched)]
  /\ ev' = Observe("merge", 1)
  /\ UNCHANGED << timelineVars, fnIn, storeVars >>

\* the merge of the same list into the merged store
MergeAgain ==
  /\ ev.op = "merge"
  /\ ev.calls = 1
  /\ fnOut' = [prev |-> fnOut.events, events |-> MergeFetched(fnOut.events, fnIn.fetched)]
  /\ ev' = Observe("merge", 2)
  /\ UNCHANGED << timelineVars, fnIn, storeVars >>

MergeNext == Merge \/ MergeAgain

MergeSpec == MergeInit /\ [][MergeNext]_vars

\* the fetched events, in fetched order, whose id no event of the store has
NewTo(store, fetched) ==
  SelectSeq(fetched, LAMBDA ge : \A k \in 1..Len(store) : store[k].id # ge.id)

\* C19: a merge keeps the store's events where they are and appends exactly
\* the fetched events whose id the store does not have; the merge of the same
\* list once more changes nothing.
C19_SyncMerge ==
  ev.op = "merge" =>
    /\ Len(fnOut.events) >= Len(fnOut.prev)
    /\ SubSeq(fnOut.events, 1, Len(fnOut.prev)) = fnOut.prev
    /\ SubSeq(fnOut.events, Len(fnOut.prev) + 1, Len(fnOut.events)) = NewTo(fnOut.prev, fnIn.fetched)
    /\ ev.calls = 2 => fnOut.events = fnOut.prev

\* a list with an unknown and a known id was merged, twice
C19_Witness ==
  /\ ev.op = "merge"
  /\ ev.calls = 2
  /\ Len(fnIn.fetched) = 2
  /\ Len(fnIn.prev) = 2
  /\ Len(fnOut.events) = 3

SinceJump == JumpScrollDelayMs - Head(jumpScrollTimers).rem

\* C25: from a jump on, as long as no scroll event has come after it, the
\* window is the 29 days around the day jumped to; a prepend scheduled before
\* the jump does not change it.
C25_JumpWindowKept ==
  (jumpScrollTimers # << >> /\ lastScrollAge > SinceJump)
    => timelineDays = DaysAround(Head(jumpScrollTimers).date, JumpBefore, JumpAfter)

\* C26: at most one prepend is scheduled, as settle timer or as paint callback.
C26_OnePrependScheduled == PendingPrepends <= 1

\* C27: when the render of a prepend computes a scroll adjustment, the anchor
\* it uses is the one captured by the scroll event that scheduled that prepend.
C27_AnchorOfThisPrepend ==
  [][(ev'.op = "prepend" /\ RestoreRuns(isPrepending, anchorElement) /\ ~isRapidScrolling
        /\ RowOfDay(timelineDays', anchorElement[1]) # 0)
       => Head(prependRafs) = << [day |-> anchorElement[1], offset |-> anchorOffset] >>]_vars

(***************************************************************************)
(* The sync alone: auto-sync, connect and disconnect on a store that only  *)
(* deletions change otherwise.  Every pending sign-in and fetch settles.   *)
(***************************************************************************)
SyncNext ==
  \/ StartApp
  \/ CloseApp
  \/ ApiReady
  \/ AutoSync
  \/ AutoFetchSettles
  \/ Connect
  \/ AuthSettles
  \/ ConnectFetchSettles
  \/ Disconnect
  \/ DeleteEvent

SyncSpec ==
  /\ StoreInit
  /\ [][SyncNext]_vars
  /\ WF_vars(AutoFetchSettles)
  /\ WF_vars(AuthSettles)
  /\ WF_vars(ConnectFetchSettles)

\* C22: a connect that fails, at the sign-in or at the fetch after it, raises
\* an alert; a failed auto-sync fetch raises none and leaves the store as it is.
C22_ConnectFailureAlerted ==
  [][/\ ev'.op \in {"signInFailed", "connectFetchFailed"} => ev'.calls = 1
     /\ ev'.op = "autoFetchFailed" => (ev'.calls = 0 /\ events' = events)]_vars

C28_NoGoogleEventsUnconnected ==
  (running /\ ~IsGoogleConnected(settings)) => \A k \in 1..Len(events) : events[k].googleId = ""

(***************************************************************************)
(* The month grid of the month view: daysInMonth.                          *)
(***************************************************************************)
\* Date.prototype.getDay of the first of January of year y (0 = Sunday)
NewYearWeekDay(y) ==
  (1 + 5 * ((y - 1) % 4) + 4 * ((y - 1) % 100) + 6 * ((y - 1) % 400)) % 7

\* Date.prototype.getDay
WeekDay(t) == (NewYearWeekDay(EpochYear) + t) % 7

\* the first column left as the week's first day is Sunday
FirstDayIndexSundayFirst(day) == day

\* date.getDay() === 0 ? 6 : date.getDay() - 1
FirstDayIndex(day) == IF day = 0 THEN 6 ELSE day - 1

\* while (date.getMonth() === month) { days.push(new Date(date)); date.setDate(date.getDate() + 1) }
RECURSIVE PushMonthDays(_, _, _)
PushMonthDays(date, month, days) ==
  IF MonthFromTime(date) = month
    THEN PushMonthDays(AddDays(date, 1), month, Append(days, << date >>))
    ELSE days

\* the cells of the grid: << >> for null, << date >> for a day
GridOfMonth(current) ==
  LET year == YearFromTime(current)
      month == MonthFromTime(current)
      date == MakeDay(year, month, 1)
      firstDayIndex == FirstDayIndex(WeekDay(date))
  IN PushMonthDays(date, month, [i \in 1..firstDayIndex |-> << >>])

\* the days whose month the calendar holds together with the day after it
GridDates == { t \in CalendarDays : t < MonthStart[EpochYear + 2][11] }

GridInit ==
  /\ Unmounted
  /\ AppAtRest
  /\ ev = Observe("init", 0)
  /\ fnIn \in GridDates
  /\ fnOut = << >>

GridBuild ==
  /\ fnOut = << >>
  /\ fnOut' = GridOfMonth(fnIn)
  /\ ev' = Observe("daysInMonth", 0)
  /\ UNCHANGED << timelineVars, fnIn, storeVars >>

GridNext == GridBuild

GridSpec == GridInit /\ [][GridNext]_vars

\* C24: the grid of a month is (weekday of the first - 1) mod 7 blank cells,
\* six for a Sunday, followed by the days of the month, each once, in order.
C24_MonthGrid ==
  ev.op = "daysInMonth" =>
    LET year == YearFromTime(fnIn)
        month == MonthFromTime(fnIn)
        first == MonthStart[year][month]
        blanks == (WeekDay(first) + 6) % 7
    IN /\ Len(fnOut) = blanks + DaysInMonth(year, month)
       /\ \A i \in 1..blanks : fnOut[i] = << >>
       /\ \A i \in 1..DaysInMonth(year, month) : fnOut[blanks + i] = << first + i - 1 >>

\* the grid of a month that starts on a Sunday
C24_Witness ==
  /\ ev.op = "daysInMonth"
  /\ WeekDay(MonthStart[YearFromTime(fnIn)][MonthFromTime(fnIn)]) = 0
  /\ fnOut[6] = << >>
  /\ fnOut[7] # << >>

(***************************************************************************)
(* The fetch of listUpcomingEvents: calendar by calendar, page by page.    *)
(* A calendar is the sequence of responses the server gives to its page    *)
(* requests; a page that is not the last carries a nextPageToken.          *)
(***************************************************************************)
MaxCalendars == 2
MaxPages == 2

\* the event that page p of calendar c holds
PageEvent(c, p) == ExternalEvent(ToString(c) \o "-" \o ToString(p), 10 * HourMs, 11 * HourMs)

\* what fetch(url) of page p of calendar c may give: an OK response with or
\* without items, a response that is not OK, a rejection (or a body that
\* response.json() cannot read)
Responses(c, p) ==
  { [kind |-> "ok", items |-> << >>],
    [kind |-> "ok", items |-> << PageEvent(c, p) >>],
    [kind |-> "notOk", items |-> << >>],
    [kind |-> "throws", items |-> << >>] }

\* the calendars of exactly n pages
RECURSIVE PagesOfLen(_, _)
PagesOfLen(c, n) ==
  IF n = 0 THEN { << >> }
  ELSE { Append(pages, r) : pages \in PagesOfLen(c, n - 1), r \in Responses(c, n) }

PagesOf(c, maxPages) == UNION { PagesOfLen(c, n) : n \in 1..maxPages }

\* the lists of exactly n calendars
RECURSIVE CalendarListsOfLen(_, _)
CalendarListsOfLen(n, maxPages) ==
  IF n = 0 THEN { << >> }
  ELSE { Append(cals, pages) : cals \in CalendarListsOfLen(n - 1, maxPages),
                               pages \in PagesOf(n, maxPages) }

CalendarLists(maxCalendars, maxPages) ==
  UNION { CalendarListsOfLen(n, maxPages) : n \in 1..maxCalendars }

\* a loop in which a failing page discards what was fetched so far
RECURSIVE FetchCalendarDropping(_, _, _)
FetchCalendarDropping(pages, k, allEvents) ==
  IF k > Len(pages) THEN allEvents
  ELSE IF pages[k].kind # "ok" THEN << >>
  ELSE FetchCalendarDropping(pages, k + 1, allEvents \o pages[k].items)

\* do { response = await fetch(url); if (!response.ok) break;
\*      allEvents = allEvents.concat(items); pageToken = data.nextPageToken }
\* while (pageToken), inside try { } catch (calErr) { }
RECURSIVE FetchCalendar(_, _, _)
FetchCalendar(pages, k, allEvents) ==
  IF k > Len(pages) THEN allEvents
  ELSE IF pages[k].kind = "throws" THEN allEvents
  ELSE IF pages[k].kind = "notOk" THEN allEvents
  ELSE FetchCalendar(pages, k + 1, allEvents \o pages[k].items)

\* for (const calendar of calendars) { ... }
RECURSIVE FetchCalendars(_, _, _)
FetchCalendars(calendars, c, allEvents) ==
  IF c > Len(calendars) THEN allEvents
  ELSE FetchCalendars(calendars, c + 1, FetchCalendar(calendars[c], 1, allEvents))

FetchInit ==
  /\ Unmounted
  /\ AppAtRest
  /\ ev = Observe("init", 0)
  /\ fnIn \in CalendarLists(MaxCalendars, MaxPages)
  /\ fnOut = << >>

\* ev.calls counts the events returned
FetchAll ==
  /\ ev.op = "init"
  /\ fnOut' = ListUpcomingEvents(FetchCalendars(fnIn, 1, << >>))
  /\ ev' = Observe("listUpcomingEvents", Len(fnOut'))
  /\ UNCHANGED << timelineVars, fnIn, storeVars >>

FetchNext == FetchAll

FetchSpec == FetchInit /\ [][FetchNext]_vars

\* the pages of a calendar that come before its first failing page
PagesFetched(pages) ==
  CHOOSE n \in 0..Len(pages) :
    /\ \A k \in 1..n : pages[k].kind = "ok"
    /\ n = Len(pages) \/ pages[n + 1].kind # "ok"

\* C21: the sync returns the events of every page that precedes the first
\* failing page of its calendar, in the order of calendars and pages, whatever
\* fails in the same or in another calendar.
C21_OtherCalendarsReturned ==
  ev.op = "listUpcomingEvents" =>
    LET kept == { << c, p >> \in (1..Len(fnIn)) \X (1..MaxPages) :
                    p <= PagesFetched(fnIn[c]) /\ fnIn[c][p].items # << >> }
        at(k) == CHOOSE cp \in kept : fnOut[k] = MapGoogleEvent(PageEvent(cp[1], cp[2]))
    IN /\ Len(fnOut) = Cardinality(kept)
       /\ \A cp \in kept : \E k \in 1..Len(fnOut) : fnOut[k] = MapGoogleEvent(PageEvent(cp[1], cp[2]))
       /\ \A j, k \in 1..Len(fnOut) :
            j < k => \/ at(j)[1] < at(k)[1]
                     \/ at(j)[1] = at(k)[1] /\ at(j)[2] < at(k)[2]

\* the first calendar fails at its second page, after a page with an event;
\* the second calendar answers; both events are returned
C21_Witness ==
  /\ ev.op = "listUpcomingEvents"
  /\ Len(fnIn) = 2
  /\ Len(fnIn[1]) = 2
  /\ fnIn[1][1].items # << >>
  /\ fnIn[1][2].kind # "ok"
  /\ fnIn[2][1].items # << >>
  /\ ev.calls = 2

(***************************************************************************)
(* googleCalendarService: the load of the two Google scripts and one call  *)
(* of initializeGoogleApi with configured credentials.  loader.ticks       *)
(* counts the polling periods that have passed since the call; loader.calls*)
(* counts the invocations of the callback.                                 *)
(***************************************************************************)
PollMs == 500
TimeoutMs == 10000
PollTicks == TimeoutMs \div PollMs

appAtRestVars == << timelineVars, pureVars, running, settings, savedSettings, events, syncVars >>

ServiceInit ==
  /\ Unmounted
  /\ AppAtRest
  /\ ev = Observe("init", 0)
  /\ fnIn = << >>
  /\ fnOut = << >>

\* the script of the client library has run: typeof gapi !== "undefined"
GapiScriptLoads ==
  /\ ~loader.gapi
  /\ loader' = [loader EXCEPT !.gapi = TRUE]
  /\ ev' = Observe("gapiScript", 0)
  /\ UNCHANGED << appAtRestVars, gapiInited, gisInited, currentAccessToken, authStorage, clock, authLog >>

\* the script of the identity service has run: typeof google !== "undefined"
GoogleScriptLoads ==
  /\ ~loader.google
  /\ loader' = [loader EXCEPT !.google = TRUE]
  /\ ev' = Observe("googleScript", 0)
  /\ UNCHANGED << appAtRestVars, gapiInited, gisInited, currentAccessToken, authStorage, clock, authLog >>

\* checkGapi: if (typeof gapi !== "undefined" && !gapiInited) gapi.load("client", ...)
CheckGapi(l) == IF l.gapi /\ ~gapiInited THEN [l EXCEPT !.loads = @ + 1] ELSE l

\* checkGis runs its body: typeof google !== "undefined" && !gisInited
GisChecked(l) == l.google /\ ~gisInited

\* checkGapi(); checkGis() on the loader l: a load is started, the token
\* client is made, and the callback is invoked if (gapiInited)
Checked(l) ==
  /\ gisInited' = (gisInited \/ GisChecked(l))
  /\ loader' = [CheckGapi(l) EXCEPT !.calls = IF GisChecked(l) /\ gapiInited THEN @ + 1 ELSE @]

\* initializeGoogleApi(callback)
InitializeGoogleApi ==
  /\ ~loader.called
  /\ IF gapiInited /\ gisInited
       THEN /\ loader' = [loader EXCEPT !.called = TRUE, !.calls = @ + 1]
            /\ UNCHANGED gisInited
       ELSE Checked([loader EXCEPT !.called = TRUE, !.interval = TRUE, !.timeout = TRUE])
  /\ ev' = Observe("initializeGoogleApi", 0)
  /\ UNCHANGED << appAtRestVars, gapiInited, currentAccessToken, authStorage, clock, authLog >>

\* the callback of gapi.load("client", ...): gapiInited = true in the try and
\* in the catch alike, then if (gisInited) callback()
GapiLoadCompletes ==
  /\ loader.loads > 0
  /\ gapiInited' = TRUE
  /\ loader' = [loader EXCEPT !.loads = @ - 1, !.calls = IF gisInited THEN @ + 1 ELSE @]
  /\ ev' = Observe("gapiLoaded", 0)
  /\ UNCHANGED << appAtRestVars, gisInited, currentAccessToken, authStorage, clock, authLog >>

\* a tick of setInterval(..., 500)
PollTick ==
  /\ loader.interval
  /\ loader.ticks < PollTicks
  /\ IF gapiInited /\ gisInited
       THEN /\ loader' = [loader EXCEPT !.ticks = @ + 1, !.interval = FALSE, !.calls = @ + 1]
            /\ UNCHANGED gisInited
       ELSE Checked([loader EXCEPT !.ticks = @ + 1])
  /\ ev' = Observe("pollTick", 0)
  /\ UNCHANGED << appAtRestVars, gapiInited, currentAccessToken, authStorage, clock, authLog >>

\* a polling period passes after clearInterval(interval)
Wait ==
  /\ loader.timeout
  /\ ~loader.interval
  /\ loader.ticks < PollTicks
  /\ loader' = [loader EXCEPT !.ticks = @ + 1]
  /\ ev' = Observe("wait", 0)
  /\ UNCHANGED << appAtRestVars, gapiInited, gisInited, currentAccessToken, authStorage, clock, authLog >>

\* the callback of setTimeout(..., 10000); the tick due at the same instant
\* runs before or not at all
Timeout ==
  /\ loader.timeout
  /\ loader.ticks >= PollTicks - 1
  /\ loader' = [loader EXCEPT !.timeout = FALSE, !.interval = FALSE,
                              !.calls = IF gisInited \/ gapiInited THEN @ + 1 ELSE @]
  /\ ev' = Observe("timeout", 0)
  /\ UNCHANGED << appAtRestVars, gapiInited, gisInited, currentAccessToken, authStorage, clock, authLog >>

InitNext ==
  \/ GapiScriptLoads
  \/ GoogleScriptLoads
  \/ InitializeGoogleApi
  \/ GapiLoadCompletes
  \/ PollTick
  \/ Wait
  \/ Timeout

InitSpec == ServiceInit /\ [][InitNext]_vars

\* C30: the callback of one call of initializeGoogleApi is invoked at most
\* once, and not before both the client library and the identity service are
\* initialized.
C30_ReadyOnce ==
  /\ loader.calls <= 1
  /\ loader.calls > 0 => (gapiInited /\ gisInited)

(***************************************************************************)
(* googleCalendarService: the stored sign-in of the web build.  Tokens are *)
(* numbered in the order they are granted; authLog.at[k] is the instant    *)
(* token k was granted, authLog.signedOut the tokens a sign-out removed.   *)
(***************************************************************************)
MaxAuths == 2
MaxClockSteps == 4
ClockStepMs == 30 * 60 * 1000

loaderVars == << gapiInited, gisInited, loader >>

\* a stored token never counts as expired
ExpiredNever(nowMs, expiryTime) == FALSE

\* Date.now() > parseInt(expiryTime)
Expired(nowMs, expiryTime) == nowMs > expiryTime

\* time passes
ClockAdvance ==
  /\ clock < MaxClockSteps * ClockStepMs
  /\ clock' = clock + ClockStepMs
  /\ ev' = Observe("clock", 0)
  /\ UNCHANGED << appAtRestVars, loaderVars, currentAccessToken, authStorage, authLog >>

\* the page is loaded anew: the module state starts over, localStorage stays
ReloadPage ==
  /\ gapiInited' = FALSE
  /\ gisInited' = FALSE
  /\ currentAccessToken' = 0
  /\ loader' = NoLoader
  /\ ev' = Observe("reload", 0)
  /\ UNCHANGED << appAtRestVars, authStorage, clock, authLog >>

\* tokenClient.callback of handleAuthClick with a response without error:
\* currentAccessToken = resp.access_token; persistAuthState(gapi.client.getToken())
AuthSucceeds ==
  /\ gapiInited
  /\ gisInited
  /\ Len(authLog.at) < MaxAuths
  /\ currentAccessToken' = Len(authLog.at) + 1
  /\ authStorage' = << [token |-> currentAccessToken', expiry |-> clock + HourMs] >>
  /\ authLog' = [authLog EXCEPT !.at = Append(@, clock)]
  /\ ev' = Observe("authSucceeds", 0)
  /\ UNCHANGED << appAtRestVars, loaderVars, clock >>

\* handleSignOut; with a token set and the identity script not loaded,
\* google.accounts.oauth2.revoke throws before anything is cleared
SignOut ==
  /\ IF gapiInited /\ currentAccessToken # 0 /\ ~loader.google
       THEN /\ ev' = Observe("signOutThrows", 0)
            /\ UNCHANGED << currentAccessToken, authStorage, authLog >>
       ELSE /\ currentAccessToken' = 0
            /\ authStorage' = << >>
            /\ authLog' = [authLog EXCEPT !.signedOut =
                             @ \cup { authStorage[k].token : k \in 1..Len(authStorage) }]
            /\ ev' = Observe("signOut", 0)
  /\ UNCHANGED << appAtRestVars, loaderVars, clock >>

\* checkStoredAuth, with restoreAuthState and clearAuthState; ev.calls is 1
\* when it returns true
CheckStoredAuth ==
  /\ IF ~gapiInited \/ authStorage = << >>
       THEN /\ ev' = Observe("checkStoredAuth", 0)
            /\ UNCHANGED << currentAccessToken, authStorage >>
       ELSE IF Expired(clock, authStorage[1].expiry)
         THEN /\ authStorage' = << >>
              /\ ev' = Observe("checkStoredAuth", 0)
              /\ UNCHANGED currentAccessToken
         ELSE /\ currentAccessToken' = authStorage[1].token
              /\ ev' = Observe("checkStoredAuth", 1)
              /\ UNCHANGED authStorage
  /\ UNCHANGED << appAtRestVars, loaderVars, clock, authLog >>

AuthNext ==
  \/ GapiScriptLoads
  \/ GoogleScriptLoads
  \/ InitializeGoogleApi
  \/ GapiLoadCompletes
  \/ ClockAdvance
  \/ ReloadPage
  \/ AuthSucceeds
  \/ SignOut
  \/ CheckStoredAuth

AuthSpec == ServiceInit /\ [][AuthNext]_vars

====
